---------------------------- MODULE Spec2Model ----------------------------
(***************************************************************************)
(* Model of lib/routes/collection.js of mongo-express: the query builder,  *)
(* the query options, the aggregation pipeline builder, the result         *)
(* executor (_getItemsAndCount) and the size guard of viewCollection.      *)
(***************************************************************************)
EXTENDS Integers, Sequences, FiniteSets, TLC

(***************************************************************************)
(* Bounds of the model.                                                    *)
(***************************************************************************)
\* largest configured config.options.documentsPerPage explored
MaxPage == 2
\* number of concurrent writes to the collection explored per request
MaxWrites == 1
\* longest user pipeline explored by the pipeline builder specification
MaxStages == 2
\* largest number of documents in a result set handed to the size guard alone
MaxItems == 1

(***************************************************************************)
(* Values.  Every JavaScript value is a record with a kind field.          *)
(***************************************************************************)
Absent == "<undefined>"
Undefined == [kind |-> "undefined"]
NaN == [kind |-> "nan"]
Num(n) == [kind |-> "num", v |-> n]
Str(s, n) == [kind |-> "str", s |-> s, len |-> n]

\* JavaScript truthiness of a request parameter text: undefined and '' are falsy
Truthy(text) == text # Absent /\ text # ""

(***************************************************************************)
(* Number.parseInt(text, 10) over a text given as a sequence of            *)
(* one-character strings.                                                  *)
(***************************************************************************)
Digits == <<"0", "1", "2", "3", "4", "5", "6", "7", "8", "9">>
IsDigit(c) == \E i \in 1..10 : Digits[i] = c
DigitVal(c) == (CHOOSE i \in 1..10 : Digits[i] = c) - 1
UndefinedText == <<"u", "n", "d", "e", "f", "i", "n", "e", "d">>

RECURSIVE StripWS(_)
StripWS(s) == IF s # <<>> /\ Head(s) = " " THEN StripWS(Tail(s)) ELSE s

RECURSIVE DigitPrefix(_, _, _)
DigitPrefix(s, acc, seen) ==
    IF s # <<>> /\ IsDigit(Head(s))
    THEN DigitPrefix(Tail(s), acc * 10 + DigitVal(Head(s)), TRUE)
    ELSE IF seen THEN Num(acc) ELSE NaN

ParseInt(text) ==
    LET s == StripWS(text)
        neg == s # <<>> /\ Head(s) = "-"
        body == IF s # <<>> /\ Head(s) \in {"-", "+"} THEN Tail(s) ELSE s
        r == DigitPrefix(body, 0, FALSE)
    IN  IF r.kind = "num" /\ neg THEN Num(0 - r.v) ELSE r

\* x || 0 for the result of parseInt: NaN and 0 are falsy
OrZero(r) == IF r.kind = "nan" \/ r.v = 0 THEN 0 ELSE r.v


(***************************************************************************)
(* Request texts explored.                                                 *)
(***************************************************************************)
ObjectIdText == "507f1f77bcf86cd799439011"
ValueTexts == {"1", "zz", "[", ObjectIdText}
TypeTexts == {"s", "N", "j", "O", "R", "U", "X"}
QueryTexts == {"{}", "{x:1}", "[]", "[{$match:{x:1}}]", "{x:"}

EmptyMap == [f \in {} |-> Undefined]
Stage(op, arg) == [op |-> op, arg |-> arg]
Ok(v) == [ok |-> TRUE, v |-> v]
Throw(msg) == [ok |-> FALSE, msg |-> msg]
Object(m) == [ctor |-> "Object", v |-> m]
Array(s) == [ctor |-> "Array", v |-> s]
Null == [ctor |-> "null"]

\* String.prototype.toUpperCase on the type tags explored
ToUpperCase(t) ==
    CASE t = "s" -> "S"
      [] t = "j" -> "J"
      [] OTHER -> t

(***************************************************************************)
(* The converters table (type tag -> conversion of the raw value).         *)
(***************************************************************************)
ConverterTags == {"J", "N", "O", "R", "U", "S"}

\* JSON.parse: of the texts explored only "1" is a JSON literal
J(value) == IF value = "1" THEN Ok(Num(1)) ELSE Throw("SyntaxError")
\* Number(value): never throws, non-numeric text gives NaN
N(value) == IF value = "1" THEN Ok(Num(1)) ELSE Ok(NaN)
\* bson.parseObjectId: 24 hex characters or an error
O(value) ==
    IF value = ObjectIdText THEN Ok([kind |-> "oid", hex |-> value])
    ELSE Throw("ParseError")
\* new RegExp(value, 'i'): "[" is an unterminated character class
R(value) ==
    IF value = "[" THEN Throw("SyntaxError")
    ELSE Ok([kind |-> "regex", src |-> value])
\* new Binary(Buffer.from(hex), SUBTYPE_UUID): never throws
U(value) == Ok([kind |-> "uuid", hex |-> value])
S(value) == Ok(Str(value, 1))

converters(type, value) ==
    CASE type = "J" -> J(value)
      [] type = "N" -> N(value)
      [] type = "O" -> O(value)
      [] type = "R" -> R(value)
      [] type = "U" -> U(value)
      [] type = "S" -> S(value)

(***************************************************************************)
(* bson.toSafeBSON: the Safe Document Parser.  A mapping, a sequence, or   *)
(* null on unparsable text.                                                *)
(***************************************************************************)
toSafeBSON(text) ==
    CASE text = "{}" -> Object(EmptyMap)
      [] text = "{x:1}" -> Object([f \in {"x"} |-> Num(1)])
      [] text = "[]" -> Array(<<>>)
      [] text = "[{$match:{x:1}}]" ->
            Array(<<Stage("$match", [filter |-> [f \in {"x"} |-> Num(1)]])>>)
      [] OTHER -> Null

(***************************************************************************)
(* _getQuery, _getSort, _getProjection                                     *)
(***************************************************************************)
_getQueryNoTypeCheck(q) ==
    IF Truthy(q.key) /\ Truthy(q.value)
    THEN LET type == IF q.type = Absent THEN Absent ELSE ToUpperCase(q.type)
             c == IF type \in ConverterTags THEN converters(type, q.value)
                  ELSE Ok(Str(q.value, 1))
         IN  IF c.ok THEN Ok(Object([f \in {q.key} |-> c.v])) ELSE c
    ELSE IF Truthy(q.query)
         THEN LET result == toSafeBSON(q.query)
              IN  IF result.ctor = "null" THEN Throw("Query entered is not valid")
                  ELSE Ok(result)
         ELSE Ok(Object(EmptyMap))

_getQueryPreferRaw(q) ==
    IF Truthy(q.query)
    THEN LET result == toSafeBSON(q.query)
         IN  IF result.ctor = "null" THEN Throw("Query entered is not valid")
             ELSE Ok(result)
    ELSE IF Truthy(q.key) /\ Truthy(q.value)
         THEN LET type == IF q.type = Absent THEN Absent ELSE ToUpperCase(q.type)
              IN  IF type \notin ConverterTags THEN Throw("Invalid query type")
                  ELSE LET c == converters(type, q.value)
                       IN  IF c.ok THEN Ok(Object([f \in {q.key} |-> c.v])) ELSE c
         ELSE Ok(Object(EmptyMap))

_getQuery(q) ==
    IF Truthy(q.key) /\ Truthy(q.value)
    THEN LET type == IF q.type = Absent THEN Absent ELSE ToUpperCase(q.type)
         IN  IF type \notin ConverterTags THEN Throw("Invalid query type")
             ELSE LET c == converters(type, q.value)
                  IN  IF c.ok THEN Ok(Object([f \in {q.key} |-> c.v])) ELSE c
    ELSE IF Truthy(q.query)
         THEN LET result == toSafeBSON(q.query)
              IN  IF result.ctor = "null" THEN Throw("Query entered is not valid")
                  ELSE Ok(result)
         ELSE Ok(Object(EmptyMap))

\* q.sort is a mapping field -> direction text; an absent sort is the empty mapping
_getSort(q) == [f \in DOMAIN q.sort |-> ParseInt(q.sort[f])]

_getProjection(q) ==
    IF Truthy(q.projection)
    THEN LET p == toSafeBSON(q.projection)
         IN  IF p.ctor = "null" THEN EmptyMap ELSE p.v
    ELSE EmptyMap


(***************************************************************************)
(* State.                                                                  *)
(***************************************************************************)
VARIABLES
    config,       \* the configuration the routes were built with
    req,          \* req.query of the request being handled
    coll,         \* the documents of req.collection, in natural order
    writes,       \* number of concurrent writes made so far
    pc,           \* position of the handler
    path,         \* execution path taken by _getItemsAndCount
    queryOptions, \* the QueryOptions of the request
    calls,        \* every store operation issued, in order
    pending,      \* names of the store operations in flight
    replies,      \* what the store answered, by operation name
    page,         \* the PageResult returned by _getItemsAndCount
    snap,         \* the collection state each answer was computed from
    response,     \* responses sent (res.render / res.redirect / res.send)
    session,      \* req.session
    arg,          \* input of the component (component specifications)
    ret,          \* its output
    step          \* its position

vars == <<config, req, coll, writes, pc, path, queryOptions, calls, pending,
          replies, page, snap, response, session, arg, ret, step>>
viewVars == <<config, req, coll, writes, pc, path, queryOptions, calls, pending,
              replies, page, snap, response, session>>
fnVars == <<arg, ret, step>>

(***************************************************************************)
(* _getQueryOptions and _getAggregatePipeline                              *)
(***************************************************************************)
_getQueryOptions(q) ==
    [sort |-> _getSort(q),
     limit |-> config.documentsPerPage,
     skip |-> OrZero(ParseInt(q.skip)),
     projection |-> _getProjection(q)]

FacetStage(qo) ==
    Stage("$facet",
          [count |-> <<Stage("$count", [as |-> "count"])>>,
           items |-> <<Stage("$skip", [n |-> qo.skip]),
                       Stage("$limit", [n |-> qo.limit + qo.skip])>>
                     \o (IF DOMAIN qo.projection # {}
                         THEN <<Stage("$project", [spec |-> qo.projection])>>
                         ELSE <<>>)])

_getAggregatePipelineSortLast(pipeline, qo) ==
    pipeline
    \o <<FacetStage(qo)>>
    \o (IF DOMAIN qo.sort # {} THEN <<Stage("$sort", [spec |-> qo.sort])>> ELSE <<>>)

_getAggregatePipeline(pipeline, qo) ==
    pipeline
    \o (IF DOMAIN qo.sort # {} THEN <<Stage("$sort", [spec |-> qo.sort])>> ELSE <<>>)
    \o <<FacetStage(qo)>>


(***************************************************************************)
(* The document store (req.collection): what find, count and aggregate     *)
(* answer over the documents the collection holds when they run.           *)
(***************************************************************************)
Min(a, b) == IF a < b THEN a ELSE b

Matches(doc, filter) ==
    \A f \in DOMAIN filter : f \in DOMAIN doc /\ doc[f] = filter[f]

Filtered(docs, filter) == SelectSeq(docs, LAMBDA d : Matches(d, filter))

\* a sort specification the store accepts: every direction is 1 or -1
ValidSort(spec) == \A f \in DOMAIN spec : spec[f].kind = "num" /\ spec[f].v \in {1, -1}

SortKey(doc, spec) ==
    LET f == CHOOSE g \in DOMAIN spec : TRUE
    IN  IF f \in DOMAIN doc /\ doc[f].kind = "num" THEN doc[f].v * spec[f].v ELSE 0

RECURSIVE Insert(_, _, _)
Insert(sorted, doc, spec) ==
    IF Len(sorted) = 0 THEN <<doc>>
    ELSE IF SortKey(doc, spec) < SortKey(Head(sorted), spec) THEN <<doc>> \o sorted
    ELSE <<Head(sorted)>> \o Insert(Tail(sorted), doc, spec)

RECURSIVE Sorted(_, _)
Sorted(docs, spec) ==
    IF DOMAIN spec = {} \/ Len(docs) = 0 THEN docs
    ELSE Insert(Sorted(SubSeq(docs, 1, Len(docs) - 1), spec), docs[Len(docs)], spec)

Skipped(docs, n) == SubSeq(docs, n + 1, Len(docs))
Limited(docs, n) == SubSeq(docs, 1, Min(n, Len(docs)))

\* an inclusion projection: the identifier and the listed fields
Projected(doc, spec) ==
    IF DOMAIN spec = {} THEN doc
    ELSE [f \in {g \in DOMAIN doc : g = "_id" \/ g \in DOMAIN spec} |-> doc[f]]

ProjectedAll(docs, spec) == [i \in 1..Len(docs) |-> Projected(docs[i], spec)]

StoreOk(docs) == [ok |-> TRUE, docs |-> docs]
StoreFail == [ok |-> FALSE, docs |-> <<>>]

RECURSIVE RunPipeline(_, _)
RunStage(st, docs) ==
    CASE st.op = "$match" -> StoreOk(Filtered(docs, st.arg.filter))
      [] st.op = "$sort" ->
            IF ValidSort(st.arg.spec) THEN StoreOk(Sorted(docs, st.arg.spec)) ELSE StoreFail
      [] st.op = "$skip" ->
            IF st.arg.n >= 0 THEN StoreOk(Skipped(docs, st.arg.n)) ELSE StoreFail
      [] st.op = "$limit" ->
            IF st.arg.n > 0 THEN StoreOk(Limited(docs, st.arg.n)) ELSE StoreFail
      [] st.op = "$project" -> StoreOk(ProjectedAll(docs, st.arg.spec))
      [] st.op = "$count" ->
            StoreOk(IF Len(docs) = 0 THEN <<>> ELSE <<[count |-> Num(Len(docs))]>>)
      [] st.op = "$facet" ->
            LET c == RunPipeline(st.arg.count, docs)
                i == RunPipeline(st.arg.items, docs)
            IN  IF c.ok /\ i.ok THEN StoreOk(<<[count |-> c.docs, items |-> i.docs]>>)
                ELSE StoreFail

RunPipeline(stages, docs) ==
    IF Len(stages) = 0 THEN StoreOk(docs)
    ELSE LET r == RunStage(Head(stages), docs)
         IN  IF r.ok THEN RunPipeline(Tail(stages), r.docs) ELSE r

\* collection.find(query, options).toArray()
Find(query, options, docs) ==
    IF query.ctor # "Object" \/ ~ValidSort(options.sort) \/ options.skip < 0
    THEN StoreFail
    ELSE StoreOk(ProjectedAll(
            Limited(Skipped(Sorted(Filtered(docs, query.v), options.sort),
                            options.skip), options.limit),
            options.projection))

\* collection.count(query)
Count(query, docs) ==
    IF query.ctor # "Object" THEN [ok |-> FALSE, n |-> 0]
    ELSE [ok |-> TRUE, n |-> Len(Filtered(docs, query.v))]


(***************************************************************************)
(* The size guard of viewCollection.                                       *)
(***************************************************************************)
\* secondary per-row threshold and preview length
RowFieldLimit == 200
PreviewLength == 25

\* for ... in enumerates the properties of a document in this order
KeyOrder == <<"_id", "x", "blob">>
Keys(doc) == SelectSeq(KeyOrder, LAMBDA k : k \in DOMAIN doc)
PropLen(prop) == CASE prop = "_id" -> 3 [] prop = "x" -> 1 [] prop = "blob" -> 4
IdOf(doc) == IF "_id" \in DOMAIN doc THEN doc["_id"] ELSE Undefined

LargeProperty == Str("*** LARGE PROPERTY ***", 22)
LargeRow == Str("*** LARGE ROW ***", 17)

\* utils.roughSizeOfObject of a value: a string contributes its length, a
\* structure the sum over its members
RECURSIVE roughSizeOfObject(_)
roughSizeOfObject(v) ==
    CASE v.kind = "str" -> v.len
      [] v.kind = "num" -> 8
      [] v.kind = "stub" ->
            roughSizeOfObject(v.attribu) + roughSizeOfObject(v.display)
            + roughSizeOfObject(v.humanSz) + roughSizeOfObject(v.maxSize)
            + roughSizeOfObject(v.preview) + roughSizeOfObject(v.roughSz)
            + roughSizeOfObject(v._id)
      [] OTHER -> 0

\* utils.roughSizeOfObject of a whole document
RECURSIVE SumSizes(_, _)
SumSizes(doc, keys) ==
    IF Len(keys) = 0 THEN 0
    ELSE roughSizeOfObject(doc[Head(keys)]) + SumSizes(doc, Tail(keys))
RowSize(doc) == SumSizes(doc, Keys(doc))

\* utils.bytesToSize: three significant digits, a blank and the unit
bytesToSize(n) ==
    Str("size", IF n = 0 THEN 6 ELSE IF n < 100 THEN 10 ELSE IF n < 1000 THEN 9 ELSE 7)

\* length of JSON.stringify(value)
StringifyLen(v) ==
    CASE v.kind = "str" -> v.len + 2
      [] v.kind = "num" -> 1
      [] OTHER -> 100

Stub(prop, display, value, maxBytes, id) ==
    [kind |-> "stub",
     attribu |-> Str(prop, PropLen(prop)),
     display |-> display,
     humanSz |-> bytesToSize(roughSizeOfObject(value)),
     maxSize |-> bytesToSize(maxBytes),
     preview |-> Str("preview", Min(PreviewLength, StringifyLen(value))),
     roughSz |-> Num(roughSizeOfObject(value)),
     _id |-> id]

\* lines 186-198: the per-field pass over one document
RECURSIVE FieldPass(_, _, _)
FieldPass(doc, keys, cfg) ==
    IF Len(keys) = 0 THEN doc
    ELSE LET prop == Head(keys)
             next == IF roughSizeOfObject(doc[prop]) > cfg.maxPropSize
                     THEN [doc EXCEPT ![prop] =
                             Stub(prop, LargeProperty, doc[prop], cfg.maxPropSize, IdOf(doc))]
                     ELSE doc
         IN  FieldPass(next, Tail(keys), cfg)

\* variant: the per-row pass replaces every field but the identifier
RECURSIVE RowPassEveryField(_, _, _)
RowPassEveryField(doc, keys, cfg) ==
    IF Len(keys) = 0 THEN doc
    ELSE LET prop == Head(keys)
             next == IF prop # "_id"
                     THEN [doc EXCEPT ![prop] =
                             Stub(prop, LargeRow, doc[prop], cfg.maxRowSize, IdOf(doc))]
                     ELSE doc
         IN  RowPassEveryField(next, Tail(keys), cfg)

\* lines 202-214: the per-row pass over one document
RECURSIVE RowPass(_, _, _)
RowPass(doc, keys, cfg) ==
    IF Len(keys) = 0 THEN doc
    ELSE LET prop == Head(keys)
             next == IF prop # "_id" /\ roughSizeOfObject(doc[prop]) > RowFieldLimit
                     THEN [doc EXCEPT ![prop] =
                             Stub(prop, LargeRow, doc[prop], cfg.maxRowSize, IdOf(doc))]
                     ELSE doc
         IN  RowPass(next, Tail(keys), cfg)

\* lines 186-215 for one document
GuardDoc(doc, cfg) ==
    LET prepped == FieldPass(doc, Keys(doc), cfg)
    IN  IF RowSize(prepped) > cfg.maxRowSize THEN RowPass(prepped, Keys(prepped), cfg)
        ELSE prepped

\* lines 184-220: docs[i] for every i, in the order of items
SizeGuard(items, cfg) == [i \in 1..Len(items) |-> GuardDoc(items[i], cfg)]

\* lines 218, 223-224: the columns of the page, duplicates removed
RECURSIVE Columns(_, _)
Columns(docs, seen) ==
    IF Len(docs) = 0 THEN seen
    ELSE Columns(Tail(docs),
                 seen \o SelectSeq(Keys(Head(docs)),
                                   LAMBDA k : \A j \in 1..Len(seen) : seen[j] # k))


(***************************************************************************)
(* _getItemsAndCount up to its await: the path it takes and the store      *)
(* operations it issues.                                                   *)
(***************************************************************************)
Threw(msg) == [threw |-> TRUE, msg |-> msg, path |-> "none", calls |-> <<>>]
Issued(p, c) == [threw |-> FALSE, msg |-> "", path |-> p, calls |-> c]

AggregateCall(pipeline) ==
    [name |-> "aggregate", pipeline |-> pipeline,
     options |-> [allowDiskUse |-> config.allowDiskUse]]
FindCall(query, qo) ==
    [name |-> "find", query |-> query,
     options |-> [sort |-> qo.sort, limit |-> qo.limit, skip |-> qo.skip,
                  projection |-> qo.projection,
                  allowDiskUse |-> config.allowDiskUse /\ ~config.awsDocumentDb]]
CountCall(query) == [name |-> "count", query |-> query]

\* variant: the aggregation path counts with a second store operation
_getItemsAndCountTwoOps(q, qo) ==
    LET query == _getQuery(q)
    IN  IF ~query.ok THEN Threw(query.msg)
        ELSE IF q.runAggregate = "on" /\ query.v.ctor = "Array" /\ Len(query.v.v) > 0
        THEN Issued("aggregate",
                    <<AggregateCall(_getAggregatePipeline(query.v.v, qo)),
                      CountCall(Object(EmptyMap))>>)
        ELSE LET filter == IF q.runAggregate = "on" /\ query.v.ctor = "Array"
                           THEN Object(EmptyMap) ELSE query.v
             IN  Issued("direct", <<FindCall(filter, qo), CountCall(filter)>>)

\* variant: an empty pipeline is aggregated too
_getItemsAndCountNoLengthCheck(q, qo) ==
    LET query == _getQuery(q)
    IN  IF ~query.ok THEN Threw(query.msg)
        ELSE IF q.runAggregate = "on" /\ query.v.ctor = "Array"
        THEN Issued("aggregate",
                    <<AggregateCall(_getAggregatePipeline(query.v.v, qo))>>)
        ELSE Issued("direct", <<FindCall(query.v, qo), CountCall(query.v)>>)

_getItemsAndCount(q, qo) ==
    LET query == _getQuery(q)
    IN  IF ~query.ok THEN Threw(query.msg)
        ELSE IF q.runAggregate = "on" /\ query.v.ctor = "Array" /\ Len(query.v.v) > 0
        THEN Issued("aggregate",
                    <<AggregateCall(_getAggregatePipeline(query.v.v, qo))>>)
        ELSE LET filter == IF q.runAggregate = "on" /\ query.v.ctor = "Array"
                           THEN Object(EmptyMap) ELSE query.v
             IN  Issued("direct", <<FindCall(filter, qo), CountCall(filter)>>)

\* the last call issued under a name
CallOf(name) ==
    LET i == CHOOSE j \in 1..Len(calls) :
                 calls[j].name = name /\ \A k \in (j + 1)..Len(calls) : calls[k].name # name
    IN  calls[i]

\* lines 136-140 and 153-156: the PageResult read from the answers
PageResult ==
    IF path = "aggregate"
    THEN LET resultArray == replies.aggregate[1]
         IN  [items |-> resultArray.items,
              count |-> IF Len(resultArray.count) = 0 THEN Undefined
                        ELSE resultArray.count[1].count]
    ELSE [items |-> replies.find, count |-> replies.count]

\* count > limit in JavaScript: undefined > n is false
GreaterThan(count, n) == count.kind = "num" /\ count.v > n

\* lines 181-252: the context handed to res.render
Ctx(pg, stats, indexes) ==
    LET docs == SizeGuard(pg.items, config)
    IN  [docs |-> docs,
         columns |-> Columns(docs, <<>>),
         count |-> pg.count,
         stats |-> stats,
         limit |-> queryOptions.limit,
         skip |-> queryOptions.skip,
         sort |-> queryOptions.sort,
         pagination |-> GreaterThan(pg.count, queryOptions.limit),
         key |-> req.key, value |-> req.value, type |-> req.type,
         query |-> req.query, projection |-> req.projection,
         runAggregate |-> (req.runAggregate = "on"),
         indexes |-> indexes]

Render(ctx) == [kind |-> "render", view |-> "collection", ctx |-> ctx]
RedirectBack == [kind |-> "redirect", to |-> "back"]

(***************************************************************************)
(* viewCollection, one action per stretch between two awaits.              *)
(***************************************************************************)
\* lines 253-257: the catch of viewCollection
Catch(message) ==
    /\ session' = [error |-> message]
    /\ response' = Append(response, RedirectBack)
    /\ pending' = {}
    /\ pc' = "done"

\* lines 161-163: the query options, the query and the operations issued
Begin ==
    /\ pc = "start"
    /\ LET qo == _getQueryOptions(req)
           g == _getItemsAndCount(req, qo)
       IN  /\ queryOptions' = qo
           /\ path' = g.path
           /\ calls' = calls \o g.calls
           /\ IF g.threw
              THEN Catch(g.msg)
              ELSE /\ pending' = {g.calls[i].name : i \in 1..Len(g.calls)}
                   /\ pc' = "awaitItems"
                   /\ UNCHANGED <<session, response>>
    /\ UNCHANGED <<config, req, coll, writes, replies, page, snap, fnVars>>

\* the store answers the aggregate of line 135
StoreAggregate ==
    /\ pc = "awaitItems" /\ "aggregate" \in pending
    /\ LET r == RunPipeline(CallOf("aggregate").pipeline, coll)
       IN  /\ r.ok
           /\ replies' = [replies EXCEPT !.aggregate = r.docs]
    /\ snap' = [snap EXCEPT !.items = coll, !.count = coll]
    /\ pending' = pending \ {"aggregate"}
    /\ UNCHANGED <<config, req, coll, writes, pc, path, queryOptions, calls, page,
                   response, session, fnVars>>

\* the store answers the find of line 150
StoreFind ==
    /\ pc = "awaitItems" /\ "find" \in pending
    /\ LET c == CallOf("find")
           r == Find(c.query, c.options, coll)
       IN  /\ r.ok
           /\ replies' = [replies EXCEPT !.find = r.docs]
    /\ snap' = [snap EXCEPT !.items = coll]
    /\ pending' = pending \ {"find"}
    /\ UNCHANGED <<config, req, coll, writes, pc, path, queryOptions, calls, page,
                   response, session, fnVars>>

\* the store answers the count of line 151
StoreCount ==
    /\ pc = "awaitItems" /\ "count" \in pending
    /\ LET r == Count(CallOf("count").query, coll)
       IN  /\ r.ok
           /\ replies' = [replies EXCEPT !.count = Num(r.n)]
    /\ snap' = [snap EXCEPT !.count = coll]
    /\ pending' = pending \ {"count"}
    /\ UNCHANGED <<config, req, coll, writes, pc, path, queryOptions, calls, page,
                   response, session, fnVars>>

\* a store operation in flight is rejected: the await throws into the catch
StoreError ==
    /\ pc \in {"awaitItems", "awaitStats"} /\ pending # {}
    /\ Catch("StoreOperationError")
    /\ UNCHANGED <<config, req, coll, writes, path, queryOptions, calls, replies,
                   page, snap, fnVars>>

\* lines 163-179 and, without the statistics, 181-252
Resume ==
    /\ pc = "awaitItems" /\ pending = {}
    /\ page' = PageResult
    /\ IF config.admin /\ ~config.awsDocumentDb
       THEN /\ calls' = calls \o <<[name |-> "collStats"], [name |-> "indexes"]>>
            /\ pending' = {"collStats", "indexes"}
            /\ pc' = "awaitStats"
            /\ UNCHANGED response
       ELSE /\ response' = Append(response, Render(Ctx(PageResult, "false", "undefined")))
            /\ pc' = "done"
            /\ UNCHANGED <<calls, pending>>
    /\ UNCHANGED <<config, req, coll, writes, path, queryOptions, replies, snap,
                   session, fnVars>>

\* the store answers the $collStats aggregate of line 169 or the indexes of line 170
StoreStats ==
    /\ pc = "awaitStats"
    /\ \E name \in pending :
          /\ replies' = [replies EXCEPT ![name] = TRUE]
          /\ pending' = pending \ {name}
    /\ UNCHANGED <<config, req, coll, writes, pc, path, queryOptions, calls, page,
                   snap, response, session, fnVars>>

\* lines 173-176 and 181-252
Finish ==
    /\ pc = "awaitStats" /\ pending = {}
    /\ response' = Append(response, Render(Ctx(page, "storageStats", "indexes")))
    /\ pc' = "done"
    /\ UNCHANGED <<config, req, coll, writes, path, queryOptions, calls, pending,
                   replies, page, snap, session, fnVars>>

(***************************************************************************)
(* Other clients of the store write to the collection while the request    *)
(* is handled.                                                             *)
(***************************************************************************)
Doc(id, x, blobLen) == [_id |-> Num(id), x |-> Num(x), blob |-> Str("b", blobLen)]

InsertOne ==
    /\ pc # "done" /\ writes < MaxWrites
    /\ coll' = Append(coll, Doc(10 + writes, 1, 10))
    /\ writes' = writes + 1
    /\ UNCHANGED <<config, req, pc, path, queryOptions, calls, pending, replies,
                   page, snap, response, session, fnVars>>

DeleteOne ==
    /\ pc # "done" /\ writes < MaxWrites /\ Len(coll) > 0
    /\ coll' = Tail(coll)
    /\ writes' = writes + 1
    /\ UNCHANGED <<config, req, pc, path, queryOptions, calls, pending, replies,
                   page, snap, response, session, fnVars>>

(***************************************************************************)
(* The requests, configurations and collections explored.                  *)
(***************************************************************************)
SkipTexts == {UndefinedText, <<"x">>, <<"0">>, <<" ", "1">>, <<"-", "1">>}
SortParams == {EmptyMap, [f \in {"x"} |-> <<"-", "1">>]}

\* the parameters read by _getQueryOptions and the aggregation switch
PagingParams ==
    [runAggregate : {Absent, "on"}, skip : SkipTexts, sort : SortParams,
     projection : {Absent, "{x:1}", "{x:"}]

Request(k, v, t, q, p) ==
    [key |-> k, value |-> v, type |-> t, query |-> q,
     runAggregate |-> p.runAggregate, skip |-> p.skip, sort |-> p.sort,
     projection |-> p.projection]

\* simple queries (key and value given, with or without a raw query beside
\* them) and raw queries (no key, no value, no type)
ViewRequests ==
    {Request("x", v, t, q, p) :
        v \in {"1", "zz"}, t \in {Absent, "N", "j", "X"},
        q \in {Absent, "[{$match:{x:1}}]"}, p \in PagingParams}
    \cup
    {Request(Absent, Absent, Absent, q, p) :
        q \in {Absent, "{x:1}", "[]", "[{$match:{x:1}}]", "{x:"}, p \in PagingParams}

Configs ==
    {[documentsPerPage |-> p, admin |-> m[1], awsDocumentDb |-> m[2],
      allowDiskUse |-> m[3], maxPropSize |-> 500, maxRowSize |-> 1000] :
        p \in 1..MaxPage,
        m \in {<<FALSE, FALSE, FALSE>>, <<TRUE, FALSE, TRUE>>, <<TRUE, TRUE, TRUE>>}}

InitColls == {<<>>, <<Doc(1, 1, 10), Doc(2, 1, 600), Doc(3, 1, 10), Doc(4, 0, 10)>>}

NoOptions == [sort |-> EmptyMap, limit |-> 1, skip |-> 0, projection |-> EmptyMap]
NoReplies ==
    [aggregate |-> <<>>, find |-> <<>>, count |-> Undefined,
     collStats |-> FALSE, indexes |-> FALSE]
\* nothing returned yet by _getItemsAndCount
NoPage == [items |-> <<>>, count |-> [kind |-> "none"]]
Idle == [in |-> "none"]

Init ==
    /\ config \in Configs
    /\ req \in ViewRequests
    /\ coll \in InitColls
    /\ writes = 0
    /\ pc = "start"
    /\ path = "none"
    /\ queryOptions = NoOptions
    /\ calls = <<>>
    /\ pending = {}
    /\ replies = NoReplies
    /\ page = NoPage
    /\ snap = [items |-> <<>>, count |-> <<>>]
    /\ response = <<>>
    /\ session = [error |-> ""]
    /\ arg = Idle /\ ret = Idle /\ step = "none"

Next ==
    \/ Begin
    \/ StoreAggregate
    \/ StoreFind
    \/ StoreCount
    \/ StoreError
    \/ Resume
    \/ StoreStats
    \/ Finish
    \/ InsertOne
    \/ DeleteOne

Spec == Init /\ [][Next]_vars


(***************************************************************************)
(* Properties of viewCollection and _getItemsAndCount (specification Spec) *)
(***************************************************************************)
\* the operations _getItemsAndCount issued (the statistics come later)
ItemCalls == SelectSeq(calls, LAMBDA c : c.name \in {"aggregate", "find", "count"})
\* _getItemsAndCount has returned its PageResult
Returned == page.count.kind # "none"
\* the user pipeline of an aggregation request
UserStages == toSafeBSON(req.query).v
\* number of documents the user stages produce from a collection state
AggregateMatches(docs) == Len(RunPipeline(UserStages, docs).docs)
\* number of documents the filter of the find selects from a collection state
DirectMatches(docs) == Len(Filtered(docs, CallOf("find").query.v))
\* an absent count stands for zero matches
AsNumber(count) == IF count.kind = "num" THEN count.v ELSE 0

\* C1: on the aggregation path exactly one store operation, the aggregate, is
\* issued, and under every interleaving of writes the returned items and count
\* are computed from one and the same collection state.
C1_AggregateSingleSnapshot ==
    path = "aggregate" =>
        /\ Len(ItemCalls) = 1 /\ ItemCalls[1].name = "aggregate"
        /\ snap.items = snap.count
        /\ Returned =>
              /\ AsNumber(page.count) = AggregateMatches(snap.items)
              /\ page.items = RunPipeline(CallOf("aggregate").pipeline, snap.items).docs[1].items

\* C1: on the direct path find and count are two operations, and a write between
\* them makes the returned count differ from the matches in the state the items
\* were read from.
C1_DirectRace ==
    /\ path = "direct" /\ Returned
    /\ Len(ItemCalls) = 2
    /\ snap.items # snap.count
    /\ page.count.v # DirectMatches(snap.items)

\* the conditions under which the Query Builder fails
QueryBuilderFails(q) ==
    IF Truthy(q.key) /\ Truthy(q.value)
    THEN \/ q.type = Absent
         \/ ToUpperCase(q.type) \notin {"J", "N", "O", "R", "U", "S"}
         \/ ~converters(ToUpperCase(q.type), q.value).ok
    ELSE Truthy(q.query) /\ toSafeBSON(q.query).ctor = "null"

\* the condition under which _getItemsAndCount takes the aggregation path
WantsAggregate(q) ==
    /\ ~(Truthy(q.key) /\ Truthy(q.value))
    /\ Truthy(q.query)
    /\ q.runAggregate = "on"
    /\ toSafeBSON(q.query).ctor = "Array"
    /\ Len(toSafeBSON(q.query).v) > 0

\* C2: aggregate is called if and only if runAggregate is 'on' and the resolved
\* query is a non-empty sequence; every other resolved query goes to find and
\* count with one and the same filter, the empty filter for an empty pipeline.
C2_AggregateIffRequested ==
    (pc # "start" /\ ~QueryBuilderFails(req)) =>
        /\ (\E i \in 1..Len(ItemCalls) : ItemCalls[i].name = "aggregate")
              <=> WantsAggregate(req)
        /\ ~WantsAggregate(req) =>
              /\ Len(ItemCalls) = 2
              /\ ItemCalls[1].name = "find" /\ ItemCalls[2].name = "count"
              /\ ItemCalls[1].query = ItemCalls[2].query
              /\ (req.runAggregate = "on" /\ ~Truthy(req.key) /\ req.query = "[]") =>
                    /\ ItemCalls[1].query.ctor = "Object"
                    /\ DOMAIN ItemCalls[1].query.v = {}

C2_EmptyPipelineDirect ==
    /\ req.runAggregate = "on" /\ ~Truthy(req.key) /\ req.query = "[]"
    /\ path = "direct" /\ Returned

\* C4: for every skip >= 0 and limit > 0 the items returned by the aggregation
\* path are at most limit.
C4_ItemsWithinLimit ==
    (path = "aggregate" /\ Returned /\ queryOptions.skip >= 0 /\ queryOptions.limit > 0)
        => Len(page.items) <= queryOptions.limit

\* C5: the returned count is an integer, the total number of matches in the
\* state it was computed from, and 0 when nothing matched.
C5_CountIsTotal ==
    Returned =>
        /\ page.count.kind = "num"
        /\ page.count.v = IF path = "aggregate" THEN AggregateMatches(snap.count)
                          ELSE DirectMatches(snap.count)

\* C7: when the Query Builder fails no store operation is issued, nothing is
\* rendered, and the one response is the session error with a redirect back.
C7_FailureRedirects ==
    (pc # "start" /\ QueryBuilderFails(req)) =>
        /\ calls = <<>> /\ pending = {}
        /\ pc = "done"
        /\ Len(response) = 1 /\ response[1].kind = "redirect" /\ response[1].to = "back"
        /\ session.error # ""

C7_FailureSeen ==
    /\ pc = "done" /\ QueryBuilderFails(req) /\ Len(response) = 1
    /\ Truthy(req.key) /\ req.type = "X"

\* C8: skip is a non-negative integer and limit the configured positive page
\* size, and these reach the store on both paths.
C8_SkipNonNegative ==
    pc # "start" =>
        /\ queryOptions.skip >= 0
        /\ queryOptions.limit = config.documentsPerPage /\ queryOptions.limit > 0
        /\ \A i \in 1..Len(calls) :
              calls[i].name = "find" =>
                  /\ calls[i].options.skip = queryOptions.skip
                  /\ calls[i].options.limit = queryOptions.limit


(***************************************************************************)
(* Component specifications: one component applied to inputs drawn from    *)
(* bounded sets, the request handler idle.                                 *)
(***************************************************************************)
DefaultConfig ==
    [documentsPerPage |-> 1, admin |-> FALSE, awsDocumentDb |-> FALSE,
     allowDiskUse |-> FALSE, maxPropSize |-> 500, maxRowSize |-> 1000]
NoRequest ==
    [key |-> Absent, value |-> Absent, type |-> Absent, query |-> Absent,
     runAggregate |-> Absent, skip |-> UndefinedText, sort |-> EmptyMap,
     projection |-> Absent]

ViewIdle ==
    /\ req = NoRequest
    /\ coll = <<>>
    /\ writes = 0
    /\ pc = "idle"
    /\ path = "none"
    /\ queryOptions = NoOptions
    /\ calls = <<>>
    /\ pending = {}
    /\ replies = NoReplies
    /\ page = NoPage
    /\ snap = [items |-> <<>>, count |-> <<>>]
    /\ response = <<>>
    /\ session = [error |-> ""]

\* ---- the Query Builder ----
QueryRequests ==
    [key : {Absent, "", "x"}, value : {Absent, ""} \cup ValueTexts,
     type : {Absent} \cup TypeTexts, query : {Absent} \cup QueryTexts]

InitQuery ==
    /\ config = DefaultConfig /\ ViewIdle
    /\ arg \in QueryRequests /\ ret = Idle /\ step = "input"

GetQuery ==
    /\ step = "input"
    /\ ret' = _getQuery(arg)
    /\ step' = "done"
    /\ UNCHANGED <<viewVars, arg>>

SpecQuery == InitQuery /\ [][GetQuery]_vars

\* ---- the Aggregation Pipeline Builder ----
UserStageKinds ==
    {Stage("$match", [filter |-> [f \in {"x"} |-> Num(1)]]),
     Stage("$sort", [spec |-> [f \in {"x"} |-> Num(1)]]),
     Stage("$project", [spec |-> [f \in {"x"} |-> Num(1)]]),
     Stage("$facet", [byX |-> <<Stage("$match", [filter |-> [f \in {"x"} |-> Num(1)]])>>])}

UserPipelines == UNION {[1..n -> UserStageKinds] : n \in 0..MaxStages}

OptionSets ==
    [sort : {EmptyMap, [f \in {"x"} |-> Num(-1)]},
     limit : 1..MaxPage,
     skip : {0, 1, -1},
     projection : {EmptyMap, [f \in {"x"} |-> Num(1)]}]

InitPipeline ==
    /\ config = DefaultConfig /\ ViewIdle
    /\ arg \in [pipeline : UserPipelines, qo : OptionSets]
    /\ ret = <<>> /\ step = "input"

BuildPipeline ==
    /\ step = "input"
    /\ ret' = _getAggregatePipeline(arg.pipeline, arg.qo)
    /\ step' = "done"
    /\ UNCHANGED <<viewVars, arg>>

SpecPipeline == InitPipeline /\ [][BuildPipeline]_vars

\* ---- the Size Guard ----
GuardDocs ==
    {[_id |-> id, x |-> x, blob |-> b] :
        id \in {Num(1), Str("id", 24), Str("id", 150), Str("id", 600)},
        x \in {Num(1), Str("x", 250)},
        b \in {Str("b", 10), Str("b", 300), Str("b", 2000)}}

GuardItems == UNION {[1..n -> GuardDocs] : n \in 1..MaxItems}

GuardConfigs ==
    {[DefaultConfig EXCEPT !.maxPropSize = p, !.maxRowSize = r] :
        p \in {50, 500}, r \in {100, 1000}}

InitGuard ==
    /\ config \in GuardConfigs /\ ViewIdle
    /\ arg \in [items : GuardItems]
    /\ ret = [once |-> <<>>, twice |-> <<>>] /\ step = "input"

\* lines 184-220 applied to a result set
Guard ==
    /\ step = "input"
    /\ ret' = [ret EXCEPT !.once = SizeGuard(arg.items, config)]
    /\ step' = "guarded"
    /\ UNCHANGED <<viewVars, arg>>

\* lines 184-220 applied to documents that have been through them
Reapply ==
    /\ step = "guarded"
    /\ ret' = [ret EXCEPT !.twice = SizeGuard(ret.once, config)]
    /\ step' = "reapplied"
    /\ UNCHANGED <<viewVars, arg>>

NextGuard == Guard \/ Reapply

SpecGuard == InitGuard /\ [][NextGuard]_vars


(***************************************************************************)
(* Properties of the Query Builder (specification SpecQuery)               *)
(***************************************************************************)
\* C6: key and value both present give the single-key mapping of the converted
\* value, the type tag matched without regard to case and query ignored;
\* otherwise a present query gives its parsed literal, a mapping or a sequence;
\* otherwise the empty mapping, without failure.
C6_QueryOutcome ==
    step = "done" =>
        IF Truthy(arg.key) /\ Truthy(arg.value)
        THEN LET tag == IF arg.type = Absent THEN Absent ELSE ToUpperCase(arg.type)
                 known == tag \in {"J", "N", "O", "R", "U", "S"}
             IN  /\ ret.ok <=> (known /\ converters(tag, arg.value).ok)
                 /\ ret.ok =>
                       /\ ret.v.ctor = "Object"
                       /\ DOMAIN ret.v.v = {arg.key}
                       /\ ret.v.v[arg.key] = converters(tag, arg.value).v
        ELSE IF Truthy(arg.query)
        THEN /\ ret.ok <=> toSafeBSON(arg.query).ctor # "null"
             /\ ret.ok =>
                   /\ ret.v.ctor \in {"Object", "Array"}
                   /\ ret.v.ctor = toSafeBSON(arg.query).ctor
                   /\ ret.v = toSafeBSON(arg.query)
        ELSE /\ ret.ok
             /\ ret.v.ctor = "Object"
             /\ DOMAIN ret.v.v = {}

C6_LowerCaseTagWithQuery ==
    /\ step = "done"
    /\ arg.key = "x" /\ arg.value = "1" /\ arg.type = "j" /\ arg.query = "[]"
    /\ ret.ok /\ ret.v.ctor = "Object" /\ ret.v.v["x"] = Num(1)

(***************************************************************************)
(* Properties of the Aggregation Pipeline Builder (SpecPipeline)           *)
(***************************************************************************)
FacetCount(stages) == Cardinality({i \in 1..Len(stages) : stages[i].op = "$facet"})
HasSort == DOMAIN arg.qo.sort # {}
HasProjection == DOMAIN arg.qo.projection # {}

\* the stages of the built pipeline other than the number of $facet stages:
\* user stages first and in order, $sort exactly when sort is non-empty, the
\* $facet last, its items branch $skip, $limit of limit + skip, and $project
\* exactly when projection is non-empty
BuiltShape ==
    LET n == Len(arg.pipeline)
        m == Len(ret)
        items == ret[m].arg.items
    IN  /\ m = n + (IF HasSort THEN 2 ELSE 1)
        /\ \A i \in 1..n : ret[i] = arg.pipeline[i]
        /\ HasSort => ret[n + 1].op = "$sort" /\ ret[n + 1].arg.spec = arg.qo.sort
        /\ ret[m].op = "$facet"
        /\ Len(ret[m].arg.count) = 1 /\ ret[m].arg.count[1].op = "$count"
        /\ Len(items) = (IF HasProjection THEN 3 ELSE 2)
        /\ items[1].op = "$skip" /\ items[1].arg.n = arg.qo.skip
        /\ items[2].op = "$limit" /\ items[2].arg.n = arg.qo.limit + arg.qo.skip
        /\ HasProjection =>
              items[3].op = "$project" /\ items[3].arg.spec = arg.qo.projection

\* C3 as stated: for every user pipeline the built pipeline holds exactly one
\* $facet stage, placed last, with the stages around it as described.
C3_ExactlyOneFacet ==
    step = "done" => BuiltShape /\ FacetCount(ret) = 1

\* C3 amended: the builder appends exactly one $facet stage, placed last, so the
\* built pipeline holds one $facet stage more than the user pipeline (exactly
\* one when the user pipeline has none), with the stages around it as described.
C3_OneFacetAppended ==
    step = "done" =>
        /\ BuiltShape
        /\ FacetCount(ret) = FacetCount(arg.pipeline) + 1
        /\ FacetCount(arg.pipeline) = 0 => FacetCount(ret) = 1

C3_SortedProjectedPage ==
    /\ step = "done"
    /\ Len(arg.pipeline) = 1 /\ arg.pipeline[1].op = "$match"
    /\ HasSort /\ HasProjection /\ arg.qo.skip = 1
    /\ Len(ret) = 3 /\ ret[3].op = "$facet" /\ ret[3].arg.items[2].arg.n = arg.qo.limit + 1

(***************************************************************************)
(* Properties of the Size Guard (specification SpecGuard)                  *)
(***************************************************************************)
IsStub(v) == v.kind = "stub"
\* the redaction stubs among the fields of the guarded documents
StubsOf(docs) ==
    {<<i, k>> \in (1..Len(docs)) \X {"_id", "x", "blob"} :
        k \in DOMAIN docs[i] /\ IsStub(docs[i][k])}

\* C9: the guard never replaces the identifier of a document and neither
\* removes nor reorders documents.
C9_IdentifierKept ==
    step # "input" =>
        /\ Len(ret.once) = Len(arg.items)
        /\ \A i \in 1..Len(arg.items) :
              /\ DOMAIN ret.once[i] = DOMAIN arg.items[i]
              /\ ret.once[i]["_id"].kind = arg.items[i]["_id"].kind
              /\ ret.once[i]["_id"] = arg.items[i]["_id"]

\* C10 as stated: whatever the thresholds, guarding a guarded document changes
\* nothing.
C10_Idempotent ==
    step = "reapplied" => ret.twice = ret.once

\* every stub of the guarded documents is within both thresholds
StubsWithinThresholds ==
    \A p \in StubsOf(ret.once) :
        /\ roughSizeOfObject(ret.once[p[1]][p[2]]) <= config.maxPropSize
        /\ roughSizeOfObject(ret.once[p[1]][p[2]]) <= RowFieldLimit

\* C10 amended: when every stub the guard produced has a size at most the
\* per-field threshold and at most 200, guarding the guarded documents again
\* changes nothing.
C10_IdempotentWithinThresholds ==
    (step = "reapplied" /\ StubsWithinThresholds) => ret.twice = ret.once

C10_RowStubKept ==
    /\ step = "reapplied" /\ StubsWithinThresholds
    /\ \E p \in StubsOf(ret.once) : ret.once[p[1]][p[2]].display = LargeRow
    /\ \E p \in StubsOf(ret.once) : ret.once[p[1]][p[2]].display = LargeProperty
    /\ ret.twice = ret.once

(***************************************************************************)
(* The importer: importCollection, lines 492-527.                          *)
(* An uploaded payload is held as the sequence of its '\n'-separated       *)
(* segments; a segment is one of LineTexts.                                *)
(***************************************************************************)
MaxFiles == 2
\* lines of all payloads of one request together
MaxLines == 2

ALLOWED_MIME_TYPES == {"text/csv", "application/json"}

LineTexts ==
    {"  ", " {\"a\":1} ", "{\"b\":2}", "[{\"a\":1},{\"b\":2}]", "{\"a\":"}

\* String.prototype.trim on the texts of LineTexts
trim(line) ==
    CASE line = "  " -> ""
      [] line = " {\"a\":1} " -> "{\"a\":1}"
      [] OTHER -> line

\* EJSON.parse on trimmed texts: a document, an array of documents, or a
\* SyntaxError
EJSONparse(line) ==
    CASE line = "{\"a\":1}" -> Ok(Object([k \in {"a"} |-> Num(1)]))
      [] line = "{\"b\":2}" -> Ok(Object([k \in {"b"} |-> Num(2)]))
      [] line = "[{\"a\":1},{\"b\":2}]" ->
            Ok(Array(<<[k \in {"a"} |-> Num(1)], [k \in {"b"} |-> Num(2)]>>))
      [] OTHER -> Throw("SyntaxError")

\* the elements that ...parsedData hands to docs.push: an array is iterable,
\* a plain object is not and the spread throws
Spread(parsedData) ==
    IF parsedData.ctor = "Array" THEN Ok(parsedData.v) ELSE Throw("TypeError")

\* fileContent.split('\n').map((line) => line.trim()).filter(Boolean)
Lines(file) ==
    SelectSeq([i \in 1..Len(file.data) |-> trim(file.data[i])],
              LAMBDA line : line # "")

\* the inner loop: Ok(docs) when every line was pushed, Throw at the first
\* line whose parse or push throws
RECURSIVE PushLines(_, _)
PushLines(lines, docs) ==
    IF lines = <<>> THEN Ok(docs)
    ELSE LET parsedData == EJSONparse(Head(lines)) IN
         IF ~parsedData.ok THEN Throw("Bad file content")
         ELSE LET elements == Spread(parsedData.v) IN
              IF ~elements.ok THEN Throw("Bad file content")
              ELSE PushLines(Tail(lines), docs \o elements.v)

\* the outer loop over the uploaded files
RECURSIVE PushFiles(_, _)
PushFiles(files, docs) ==
    IF files = <<>> THEN Ok(docs)
    ELSE LET pushed == PushLines(Lines(Head(files)), docs) IN
         IF ~pushed.ok THEN pushed ELSE PushFiles(Tail(files), pushed.v)

areInvalidFiles(files) ==
    \E i \in 1..Len(files) :
        files[i].mimetype \notin ALLOWED_MIME_TYPES \/ ~files[i].hasData

\* variant: the content type of the payloads is not looked at
importCollectionAnyMime(upload) ==
    IF ~upload.present THEN Throw("Missing file")
    ELSE IF \E i \in 1..Len(upload.files) : ~upload.files[i].hasData
         THEN Throw("Bad file")
    ELSE PushFiles(upload.files, <<>>)

\* the handler up to its await: Ok(docs) when insertMany(docs) is called,
\* Throw(body) when the request is answered 400 with that body
importCollection(upload) ==
    IF ~upload.present THEN Throw("Missing file")
    ELSE IF areInvalidFiles(upload.files) THEN Throw("Bad file")
    ELSE PushFiles(upload.files, <<>>)

Send(status, body) == [status |-> status, body |-> body]
\* `${stats.insertedCount} document(s) inserted`
Inserted(insertedCount) ==
    [insertedCount |-> insertedCount, text |-> " document(s) inserted"]

ImportRequest ==
    /\ step = "start"
    /\ LET outcome == importCollection(arg) IN
       IF outcome.ok
       THEN /\ calls' = Append(calls, [name |-> "insertMany", docs |-> outcome.v])
            /\ pending' = {"insertMany"}
            /\ step' = "awaitInsert"
            /\ UNCHANGED response
       ELSE /\ response' = Append(response, Send(400, outcome.msg))
            /\ step' = "done"
            /\ UNCHANGED <<calls, pending>>
    /\ UNCHANGED <<config, req, coll, writes, pc, path, queryOptions, replies,
                   page, snap, session, arg, ret>>

\* the store inserts the batch and confirms its size; an empty batch is
\* refused by the store (StoreInsertManyError)
StoreInsertMany ==
    /\ step = "awaitInsert"
    /\ "insertMany" \in pending
    /\ calls[Len(calls)].docs # <<>>
    /\ coll' = coll \o calls[Len(calls)].docs
    /\ response' = Append(response, Send(200, Inserted(Len(calls[Len(calls)].docs))))
    /\ pending' = {}
    /\ step' = "done"
    /\ UNCHANGED <<config, req, writes, pc, path, queryOptions, calls, replies,
                   page, snap, session, arg, ret>>

StoreInsertManyError ==
    /\ step = "awaitInsert"
    /\ "insertMany" \in pending
    /\ response' = Append(response, Send(500, "Server error"))
    /\ pending' = {}
    /\ step' = "done"
    /\ UNCHANGED <<config, req, coll, writes, pc, path, queryOptions, calls,
                   replies, page, snap, session, arg, ret>>

\* what a payload carries besides its lines: a content type, and whether
\* file.data is there at all
FileKinds ==
    {[mimetype |-> "application/json", hasData |-> TRUE],
     [mimetype |-> "text/csv", hasData |-> TRUE],
     [mimetype |-> "text/plain", hasData |-> TRUE],
     [mimetype |-> "application/json", hasData |-> FALSE]}

File(kind, data) ==
    [mimetype |-> kind.mimetype, hasData |-> kind.hasData,
     data |-> IF kind.hasData THEN data ELSE <<>>]

LineSeqs == UNION {[1..n -> LineTexts] : n \in 0..MaxLines}

\* the ways of dealing n lines, in order, to k payloads
Cuts(k, n) ==
    {c \in [0..k -> 0..n] :
        c[0] = 0 /\ c[k] = n /\ \A i \in 1..k : c[i - 1] <= c[i]}

\* req.files: k payloads in upload order, the lines s dealt to them at the
\* cuts c, their kinds m
Upload(s, k, c, m) ==
    [present |-> TRUE,
     files |-> [i \in 1..k |->
                   File(m[i], SubSeq(s, c[i - 1] + 1, c[i]))]]

\* no req.files at all
NoUpload == [present |-> FALSE, files |-> <<>>]

InitImport ==
    /\ config = DefaultConfig
    /\ ViewIdle
    /\ \/ arg = NoUpload
       \/ \E s \in LineSeqs, k \in 0..MaxFiles :
            \E c \in Cuts(k, Len(s)), m \in [1..k -> FileKinds] :
                arg = Upload(s, k, c, m)
    /\ ret = Idle
    /\ step = "start"

NextImport == ImportRequest \/ StoreInsertMany \/ StoreInsertManyError

SpecImport == InitImport /\ [][NextImport]_vars

InsertCalls == SelectSeq(calls, LAMBDA c : c.name = "insertMany")

AnyDisallowedMime ==
    \E i \in 1..Len(arg.files) : arg.files[i].mimetype \notin ALLOWED_MIME_TYPES

\* some non-blank line of some payload is no extended literal
AnyUnparsedLine ==
    \E i \in 1..Len(arg.files) :
        \E j \in 1..Len(arg.files[i].data) :
            /\ trim(arg.files[i].data[j]) # ""
            /\ ~EJSONparse(trim(arg.files[i].data[j])).ok

\* C11: importCollection is all-or-nothing: insertMany is called at most
\* once, and only when every payload has an allowed content type and every
\* non-blank line has parsed; with a disallowed content type or a line that
\* fails to parse nothing is inserted and the request ends with one
\* response, a 400.
C11_AllOrNothing ==
    /\ Len(InsertCalls) <= 1
    /\ InsertCalls # <<>> =>
          arg.present /\ ~AnyDisallowedMime /\ ~AnyUnparsedLine
    /\ (step # "start" /\ arg.present /\ (AnyDisallowedMime \/ AnyUnparsedLine)) =>
          /\ step = "done"
          /\ InsertCalls = <<>>
          /\ coll = <<>>
          /\ Len(response) = 1
          /\ response[1].status = 400

\* C11 witness: a well-formed first payload, then a payload whose line does
\* not parse: answered 400, nothing inserted.
C11_LaterPayloadMalformed ==
    /\ step = "done"
    /\ Len(arg.files) = 2
    /\ ~AnyDisallowedMime
    /\ Lines(arg.files[1]) = <<"[{\"a\":1},{\"b\":2}]">>
    /\ Lines(arg.files[2]) = <<"{\"a\":">>
    /\ InsertCalls = <<>>
    /\ coll = <<>>
    /\ response = <<Send(400, "Bad file content")>>

\* every payload is there with an allowed content type, every non-blank line
\* is a well-formed literal, and there is at least one such line
WellFormedUpload ==
    /\ arg.present
    /\ ~areInvalidFiles(arg.files)
    /\ ~AnyUnparsedLine
    /\ \E i \in 1..Len(arg.files) : Lines(arg.files[i]) # <<>>

\* the documents of the well-formed lines, in line order: a single-object
\* literal is one document, an array of k documents is its k documents
RECURSIVE DocumentsOf(_)
DocumentsOf(lines) ==
    IF lines = <<>> THEN <<>>
    ELSE LET literal == EJSONparse(Head(lines)).v IN
         (IF literal.ctor = "Array" THEN literal.v ELSE <<literal.v>>)
             \o DocumentsOf(Tail(lines))

RECURSIVE AllLines(_)
AllLines(files) ==
    IF files = <<>> THEN <<>> ELSE Lines(Head(files)) \o AllLines(Tail(files))

\* C12: for an upload of allowed content type whose non-blank lines are all
\* well-formed, insertMany is called with exactly the documents of the lines
\* in line order (one per single-object line, k per array line of k), and
\* the count reported on success is their number.
C12_OneDocumentPerLine ==
    (step # "start" /\ WellFormedUpload) =>
        /\ Len(InsertCalls) = 1
        /\ InsertCalls[1].docs = DocumentsOf(AllLines(arg.files))
        /\ (step = "done" /\ response[1].status = 200) =>
              /\ response[1].body.insertedCount =
                     Len(DocumentsOf(AllLines(arg.files)))
              /\ coll = DocumentsOf(AllLines(arg.files))

\* the part of C12 that the code keeps: array lines alone
C12_ArrayLinesOnly ==
    (step # "start" /\ WellFormedUpload
       /\ \A i \in 1..Len(AllLines(arg.files)) :
             EJSONparse(AllLines(arg.files)[i]).v.ctor = "Array") =>
        /\ Len(InsertCalls) = 1
        /\ InsertCalls[1].docs = DocumentsOf(AllLines(arg.files))
        /\ (step = "done" /\ response[1].status = 200) =>
              response[1].body.insertedCount =
                  Len(DocumentsOf(AllLines(arg.files)))

\* the two-line batch of single-object literals, answered 400
C12_TwoObjectLinesRefused ==
    /\ step = "done"
    /\ Len(arg.files) = 1
    /\ arg.files[1].mimetype = "application/json"
    /\ Lines(arg.files[1]) = <<"{\"a\":1}", "{\"b\":2}">>
    /\ InsertCalls = <<>>
    /\ response = <<Send(400, "Bad file content")>>

=============================================================================
